---- MODULE Spec2Model ----
(***************************************************************************)
(* Model of the Imtiyoz-AI backend (yuridik/backend/app): the Scout trigger *)
(* endpoint and its job registry, the background pipeline run               *)
(* (run_scout_cycle / ScoutAgent.run_cycle), the process-wide status queue  *)
(* and the SSE subscribers that read it.                                    *)
(*                                                                         *)
(* Execution is a single asyncio event loop: an action is the code that     *)
(* runs between two suspension points (or a finer slice of it).             *)
(*                                                                         *)
(* Fields marked "ghost" are history kept for stating properties; the code  *)
(* does not hold them.                                                      *)
(***************************************************************************)
EXTENDS Integers, Sequences, FiniteSets, TLC

VARIABLES
    running_jobs,   \* scout.py _running_jobs: the job ids mapped to True
    issued,         \* number of job ids generated so far (uuid4 values are fresh)
    response,       \* the ScoutTriggerResponse of the latest trigger request
                    \* (forced is ghost: the request's force_refresh)
    tasks,          \* per job id: the background task run_scout_cycle and its ScoutAgent
    queue,          \* app_state.scout_status_queue: the events put and not yet got
    produced,       \* ghost: the number of events put on the queue so far
    subs,           \* the event_generator instances of GET /status: st, the events
                    \* yielded (got) and the kind of the last yield; ghost: how many
                    \* events had been put and got when the client connected
    collection,     \* app_state.chroma_collection: None, or the stored chunks
    chat,           \* POST /api/chat: the settings and the request being handled
    chunker         \* chunk_legal_document: the call being made and what it returned

vars == <<running_jobs, issued, response, tasks, queue, produced, subs, collection,
          chat, chunker>>

(***************************************************************************)
(* Bounds of the model.                                                     *)
(***************************************************************************)
MaxJobs == 2        \* trigger requests admitted in one behaviour
MaxResults == 2     \* results of one keyword search (scout_max_results_per_keyword)
MaxSubs == 2        \* GET /status connections in one behaviour
MaxTextLen == 7     \* characters of a text given to the chunker

\* The sizes of the chunker, scaled down so that texts of MaxTextLen characters
\* reach every comparison the code makes with them. The code uses them only in
\* comparisons with lengths and as slice widths.
TargetSize == 3     \* UzbekLegalChunker.target_size (2048 in the code)
MaxSize == 4        \* UzbekLegalChunker.max_size (3200 in the code)
MinChunkSize == 3   \* UzbekLegalChunker.MIN_CHUNK_SIZE (200 in the code)
OverlapSize == 2    \* UzbekLegalChunker.overlap (400 in the code)

Jobs == 1..MaxJobs
Subs == 1..MaxSubs

None == "None"
Unbound == -1       \* a local variable that has not been assigned yet

Max(a, b) == IF a >= b THEN a ELSE b

(***************************************************************************)
(* The data the external collaborators can return.                          *)
(***************************************************************************)
Urls == {"", "lex.uz/docs/1", "lex.uz/docs/2"}          \* r.get("href", "")
Titles == {"PQ-60 subsidiya", "Soliq imtiyozi"}           \* r.get("title", "")
Hits == [href : Urls, title : Titles]                     \* one DuckDuckGo result

\* agent.py _extract_decree_id on the texts above: the first PQ/PD pattern
\* found, upper-cased; None when no pattern matches.
ExtractDecreeId(text) ==
    CASE text = "PQ-60 subsidiya" -> "PQ-60"
      [] OTHER -> None

\* Python's `a or b` on Optional[str].
OrElse(a, b) == IF a # None /\ a # "" THEN a ELSE b

\* agent.py _search_lex_uz, lines 191-204: one document per result.
MakeDocument(r) ==
    [url |-> r.href, title |-> r.title,
     decree_id |-> OrElse(ExtractDecreeId(r.href), ExtractDecreeId(r.title))]

ResultLists(hits, n) == UNION {[1..k -> hits] : k \in 0..n}

\* What one call of DDGS().text() does: it raises, or returns a list of at
\* most n results.
SearchOutcomes(hits, n) ==
    {[raised |-> TRUE, results |-> <<>>]} \cup
    {[raised |-> FALSE, results |-> rs] : rs \in ResultLists(hits, n)}

\* agent.py _search_lex_uz: every exception is swallowed and gives [].
SearchLexUz(out) ==
    IF out.raised THEN <<>>
    ELSE [k \in 1..Len(out.results) |-> MakeDocument(out.results[k])]

RECURSIVE DedupFrom(_, _, _)
\* agent.py _deduplicate, the loop: seen_urls and unique after the docs left.
DedupFrom(docs, seen_urls, unique) ==
    IF docs = <<>> THEN unique
    ELSE LET doc == Head(docs) IN
         IF doc.url # "" /\ doc.url \notin seen_urls
         THEN DedupFrom(Tail(docs), seen_urls \cup {doc.url}, Append(unique, doc))
         ELSE DedupFrom(Tail(docs), seen_urls, unique)

\* Mutant of Deduplicate: the documents are keyed by url in a dict, so a later
\* document with the same url replaces the first one in its place.
DeduplicateLastWins(candidates) ==
    LET unique == DedupFrom(candidates, {}, <<>>)
        LastWith(url) == CHOOSE k \in 1..Len(candidates) :
                            /\ candidates[k].url = url
                            /\ \A m \in (k + 1)..Len(candidates) : candidates[m].url # url
    IN [k \in 1..Len(unique) |-> candidates[LastWith(unique[k].url)]]

\* agent.py _deduplicate.
Deduplicate(candidates) == DedupFrom(candidates, {}, <<>>)

\* Mutant of IsAlreadyIndexed: the where-filter names a metadata key that no
\* chunk has, so nothing is ever found.
IsAlreadyIndexedWrongKey(url, getRaised) == FALSE

\* agent.py _is_already_indexed: False without a collection or a url, and
\* False when collection.get raises.
IsAlreadyIndexed(url, getRaised) ==
    IF ~collection.initialized \/ url = "" THEN FALSE
    ELSE IF getRaised THEN FALSE
    ELSE \E c \in collection.chunks : c.source_url = url

JudgeAnswers == {"YES", "NO", "raised"}

\* agent.py _judge_relevance: no title is not relevant, a failing LLM call
\* counts as relevant, otherwise "YES" in the answer.
\* Mutant of JudgeRelevance: a classifier failure counts as not relevant.
JudgeRelevanceFailClosed(title, answer) == title # "" /\ answer = "YES"

\* agent.py _judge_relevance: no call for an empty title; "YES" in the
\* answer; True when the call raises.
JudgeRelevance(title, answer) ==
    IF title = "" THEN FALSE
    ELSE IF answer = "raised" THEN TRUE
    ELSE answer = "YES"

ScrapeOutcomes == {"raised", "empty", "content"}

\* agent.py _scrape_document: None without a url or on any exception,
\* otherwise the extracted text (possibly empty).
ScrapeDocument(url, out) ==
    IF url = "" THEN None
    ELSE IF out = "raised" THEN None
    ELSE IF out = "empty" THEN "" ELSE "text"

\* Mutant of JudgeProgress: the base of the stage is left out.
JudgeProgressNoBase(i, n) == (50 * i) \div Max(n, 1)

\* agent.py run_cycle, lines 67, 101 and 163: int() of a non-negative
\* float is the integer quotient for these operands.
SearchProgress(i, n) == 5 + (15 * i) \div n
JudgeProgress(i, n) == 20 + (50 * i) \div Max(n, 1)
IngestProgress(i, n) == 70 + (25 * i) \div Max(n, 1)

\* agent.py run_cycle, lines 140-154: the chunks of one document as they are
\* handed to collection.add; the id is f"{decree_id}_{index}".
ChunkRecords(doc) ==
    {[id |-> <<doc.decree_id, 0>>, source_url |-> doc.url]}

\* collection.add: a chunk whose id is already stored is left as it is.
CollectionAdd(chunks, new) ==
    chunks \cup {c \in new : \A d \in chunks : d.id # c.id}

\* agent.py _push_status: the event as it is put on the queue. job and seq
\* (the event's number in put order) are ghost.
Event(type, msg, progress, j) ==
    [event_type |-> type, message |-> msg, progress |-> progress,
     job |-> j, seq |-> produced + 1]

\* Mutant of QueuePut: the event is put at the head of the queue.
QueuePutFront(q, e) == <<e>> \o q

\* Mutant of QueuePut: the event is lost.
QueuePutLost(q, e) == q

\* asyncio.Queue.put on the unbounded queue.
QueuePut(q, e) == Append(q, e)

\* Mutant of QueueGet: the head is read and left in the queue.
QueuePeek(q) == q

\* asyncio.Queue.get on a queue that holds an event: what is left.
QueueGet(q) == Tail(q)

\* await queue.put(event).
Put(event) ==
    /\ queue' = QueuePut(queue, event)
    /\ produced' = produced + 1

IdleTask ==
    [pc |-> "idle", keywords |-> <<>>, i |-> 0, candidates |-> <<>>,
     relevant_docs |-> <<>>, progress |-> Unbound, ingested_count |-> 0,
     result |-> [returned |-> FALSE, ingested |-> 0, checked |-> 0],
     raw |-> <<>>,        \* ghost: candidates as they were before _deduplicate
     log |-> <<>>,        \* ghost: the calls made to the collaborators, in order
     failures |-> 0]      \* ghost: search, judge and fetch calls of the run that raised

\* scout.py run_scout_cycle, lines 145-151.
default_keywords ==
    <<"subsidiya", "grant", "soliq imtiyozi", "kredit", "tadbirkorlik",
      "kichik biznes", "yoshlar tadbirkorligi", "soliq ta'tili", "davlat yordami">>

SearchKeywords(keywords) == IF keywords = <<>> THEN default_keywords ELSE keywords

\* config.py Settings: the fields the chat endpoint reads.
Providers == {"groq", "gemini"}
ChatSettings ==
    [llm_provider : Providers, groq_api_key : {"", "gsk-1"},
     google_api_key : {"", "AIza-1"}, debug : BOOLEAN]

\* config.py: the defaults of these fields.
DefaultSettings ==
    [llm_provider |-> "groq", groq_api_key |-> "", google_api_key |-> "",
     debug |-> FALSE]

\* A text is a sequence of its parts; this is the absent text.
NoText == <<>>

\* No chat request has been made yet.
IdleChat(settings) ==
    [settings |-> settings,
     pc |-> "idle",          \* idle, generating (awaiting the LLM), returned
     request |-> None,
     sources |-> <<>>,       \* the DocumentSource list built from the query
     status_code |-> 0,      \* HTTP status of the answer
     detail |-> NoText,      \* HTTPException.detail
     response |-> NoText,    \* ChatResponse.response
     retrieved |-> [done |-> FALSE, documents |-> <<>>],
                             \* ghost: what collection.query returned
     llm_calls |-> 0,        \* ghost: calls of the provider's API for this request
     llm_error |-> None]     \* ghost: the exception raised inside the generation

(***************************************************************************)
(* rag_engine/chunker.py. A text is a sequence of characters; an article    *)
(* marker ("1-modda") is one character of the alphabet.                     *)
(***************************************************************************)
Markers == {"1-modda"}
Whitespace == {" ", "\n"}
Chars == Markers \cup Whitespace \cup {"a", "."}

\* Python's s[i:j] with 0 <= i and j <= len(s), on 0-based positions.
Slice(s, i, j) == IF j <= i THEN <<>> ELSE SubSeq(s, i + 1, j)

\* Python's str.strip().
Strip(s) ==
    LET inked == {k \in 1..Len(s) : s[k] \notin Whitespace} IN
    IF inked = {} THEN <<>>
    ELSE LET first == CHOOSE k \in inked : \A m \in inked : k <= m
             last == CHOOSE k \in inked : \A m \in inked : m <= k
         IN SubSeq(s, first, last)

\* re.sub(r'\s+', ' ', text): every run of whitespace becomes one space.
RECURSIVE CollapseWhitespace(_)
CollapseWhitespace(s) ==
    IF s = <<>> THEN <<>>
    ELSE LET rest == CollapseWhitespace(Tail(s)) IN
         IF Head(s) \in Whitespace
         THEN IF rest # <<>> /\ Head(rest) = " " THEN rest ELSE <<" ">> \o rest
         ELSE <<Head(s)>> \o rest

\* The length of the run of newlines s starts with.
RECURSIVE NewlineRun(_)
NewlineRun(s) ==
    IF s = <<>> \/ Head(s) # "\n" THEN 0 ELSE 1 + NewlineRun(Tail(s))

\* re.sub(r'\n{3,}', '\n\n', text): a run of three or more newlines becomes two.
RECURSIVE SquashNewlines(_)
SquashNewlines(s) ==
    IF s = <<>> THEN <<>>
    ELSE LET run == NewlineRun(s) IN
         IF run >= 3 THEN <<"\n", "\n">> \o SquashNewlines(SubSeq(s, run + 1, Len(s)))
         ELSE <<Head(s)>> \o SquashNewlines(Tail(s))

\* chunker.py _clean_text.
CleanText(text) == Strip(SquashNewlines(CollapseWhitespace(text)))

\* Python's str.find(sub) from position `from`: the 0-based position of the
\* first occurrence of sub at or after `from`, or -1.
FindFrom(s, sub, from) ==
    LET at == {k \in from..(Len(s) - Len(sub)) : SubSeq(s, k + 1, k + Len(sub)) = sub} IN
    IF at = {} THEN -1 ELSE CHOOSE k \in at : \A m \in at : k <= m

Find(s, sub) == FindFrom(s, sub, 0)

\* Python's `sub in s`.
Contains(s, sub) == Find(s, sub) # -1

\* Python's s.split(sep) for a non-empty sep.
RECURSIVE Split(_, _)
Split(s, sep) ==
    LET k == Find(s, sep) IN
    IF k = -1 THEN <<s>>
    ELSE <<Slice(s, 0, k)>> \o Split(Slice(s, k + Len(sep), Len(s)), sep)

\* Python's sep.join(parts).
RECURSIVE Join(_, _)
Join(parts, sep) ==
    IF parts = <<>> THEN <<>>
    ELSE IF Len(parts) = 1 THEN parts[1]
    ELSE parts[1] \o sep \o Join(Tail(parts), sep)

\* The concatenation of a sequence of sequences.
RECURSIVE Flatten(_)
Flatten(seqs) == IF seqs = <<>> THEN <<>> ELSE Head(seqs) \o Flatten(Tail(seqs))

\* The members of a finite set of integers in increasing order.
RECURSIVE Ascending(_)
Ascending(S) ==
    IF S = {} THEN <<>>
    ELSE LET least == CHOOSE k \in S : \A m \in S : k <= m
         IN <<least>> \o Ascending(S \ {least})

\* chunker.py line 168 and 174: the article label of a marker.
ArticleNumber(marker) == CASE marker = "1-modda" -> "1-modda"

\* chunker.py _split_by_articles: the 0-based starts of the marker matches.
MatchStarts(text) == Ascending({k \in 0..(Len(text) - 1) : text[k + 1] \in Markers})

\* Mutant of SplitByArticles: the preamble is appended, not inserted first.
SplitByArticlesPreambleLast(text) ==
    LET matches == MatchStarts(text)
        EndOf(i) == IF i + 1 <= Len(matches) THEN matches[i + 1] ELSE Len(text)
        articles == [i \in 1..Len(matches) |->
                        [article |-> ArticleNumber(text[matches[i] + 1]),
                         text |-> Strip(Slice(text, matches[i], EndOf(i)))]]
        preamble == Strip(Slice(text, 0, matches[1]))
    IN IF matches = <<>> THEN <<[article |-> "general", text |-> text]>>
       ELSE IF matches[1] > MinChunkSize /\ preamble # <<>>
       THEN Append(articles, [article |-> "preamble", text |-> preamble])
       ELSE articles

\* chunker.py _split_by_articles.
SplitByArticles(text) ==
    LET matches == MatchStarts(text)
        EndOf(i) == IF i + 1 <= Len(matches) THEN matches[i + 1] ELSE Len(text)
        found == [i \in 1..Len(matches) |->
                     [article |-> ArticleNumber(text[matches[i] + 1]),
                      text |-> Strip(Slice(text, matches[i], EndOf(i)))]]
        articles == SelectSeq(found, LAMBDA a : a.text # <<>>)
        preamble == Strip(Slice(text, 0, matches[1]))
    IN IF matches = <<>> THEN <<[article |-> "general", text |-> text]>>
       ELSE IF matches[1] > MinChunkSize /\ preamble # <<>>
       THEN <<[article |-> "preamble", text |-> preamble]>> \o articles
       ELSE articles

\* The greedy packing loop of _split_by_sections (lines 195-206, sepLen = 0)
\* and of _recursive_split (lines 226-239, sepLen = len(sep)): current is
\* the list of parts being collected, packed the lists already closed.
RECURSIVE Pack(_, _, _, _, _)
Pack(parts, sepLen, packed, current, current_len) ==
    IF parts = <<>>
    THEN IF current # <<>> THEN Append(packed, current) ELSE packed
    ELSE LET part == Head(parts) IN
         IF current_len + Len(part) + sepLen <= TargetSize
         THEN Pack(Tail(parts), sepLen, packed, Append(current, part),
                   current_len + Len(part) + sepLen)
         ELSE Pack(Tail(parts), sepLen,
                   IF current # <<>> THEN Append(packed, current) ELSE packed,
                   <<part>>, Len(part) + sepLen)

\* The packed lists joined with sep.
Joined(packed, sep) == [k \in 1..Len(packed) |-> Join(packed[k], sep)]

\* chunker.py _split_by_sections.
SplitBySections(text) ==
    LET paragraphs == Split(text, <<"\n", "\n">>) IN
    IF Len(paragraphs) > 1
    THEN Joined(Pack(paragraphs, 0, <<>>, <<>>, 0), <<"\n", "\n">>)
    ELSE <<text>>

\* chunker.py line 217.
separators == << <<"\n", "\n">>, <<"\n">>, <<".", " ">>, <<",", " ">>, <<" ">> >>

\* chunker.py line 245: the hard split by character count.
HardSplit(text) ==
    [k \in 1..((Len(text) + TargetSize - 1) \div TargetSize) |->
        Slice(text, (k - 1) * TargetSize,
              IF k * TargetSize <= Len(text) THEN k * TargetSize ELSE Len(text))]

\* chunker.py _recursive_split: the first separator the text contains
\* decides; a part longer than the target is kept whole.
RecursiveSplit(text) ==
    LET present == {k \in 1..Len(separators) : Contains(text, separators[k])} IN
    IF present = {} THEN HardSplit(text)
    ELSE LET sep == separators[CHOOSE k \in present : \A m \in present : k <= m]
             result == Joined(Pack(Split(text, sep), Len(sep), <<>>, <<>>, 0), sep)
         IN IF result # <<>> THEN result ELSE HardSplit(text)

\* Mutant of ArticlePieces: an article that fits is not kept whole but
\* labelled as a section.
ArticlePiecesNeverWhole(a) ==
    <<[text |-> a.text, article |-> a.article, chunk_type |-> "section"]>>

\* chunker.py chunk_document lines 98-137 for one article: the texts and
\* chunk types it contributes, in order.
ArticlePieces(a) ==
    IF Len(a.text) <= TargetSize
    THEN <<[text |-> a.text, article |-> a.article, chunk_type |-> "full_article"]>>
    ELSE LET sections == SplitBySections(a.text)
             Of(section_text) ==
                IF Len(section_text) <= TargetSize
                THEN <<[text |-> section_text, article |-> a.article,
                        chunk_type |-> "section"]>>
                ELSE LET sub_chunks == RecursiveSplit(section_text) IN
                     [k \in 1..Len(sub_chunks) |->
                         [text |-> sub_chunks[k], article |-> a.article,
                          chunk_type |-> "sub_section"]]
         IN Flatten([k \in 1..Len(sections) |-> Of(sections[k])])

\* A dict with d[key] = value set (Python's d[key] = value).
DictSet(d, key, value) ==
    [k \in DOMAIN d \cup {key} |-> IF k = key THEN value ELSE d[k]]

EmptyDict == [k \in {} |-> ""]

\* chunker.py lines 85-87: base_metadata. The argument is None (given FALSE)
\* or a dict; `metadata or {}` is the argument itself unless it is None or
\* empty.
BaseMetadata(metadata, document_id, title) ==
    DictSet(DictSet(IF metadata.given THEN metadata.items ELSE EmptyDict,
                    "document_id", document_id),
            "title", title)

\* The caller's metadata object once chunk_document has run (lines 85-87):
\* a non-empty dict is base_metadata itself and has received both keys.
MetadataAfter(metadata, document_id, title) ==
    IF metadata.given /\ DOMAIN metadata.items # {}
    THEN [metadata EXCEPT !.items = BaseMetadata(metadata, document_id, title)]
    ELSE metadata

\* chunker.py line 260: what precedes and follows the overlap text.
Ellipsis == <<".", ".", ".">>
BlankLine == <<"\n", "\n">>

\* Mutant of OverlapText: the slice is taken from the start of the text.
OverlapTextFromStart(prev_text) == Slice(prev_text, 0, OverlapSize)

\* chunker.py lines 255-259, for a prev_text longer than the overlap: its
\* last characters, from after their first space if that is not the first.
OverlapText(prev_text) ==
    LET overlap_text == Slice(prev_text, Len(prev_text) - OverlapSize, Len(prev_text))
        space_idx == Find(overlap_text, <<" ">>)
    IN IF space_idx > 0 THEN Slice(overlap_text, space_idx + 1, Len(overlap_text))
       ELSE overlap_text

\* chunker.py _add_overlap lines 252-260: done are the chunks already
\* handled (with their prefixes), rest those to come.
RECURSIVE AddOverlapFrom(_, _)
AddOverlapFrom(done, rest) ==
    IF rest = <<>> THEN done
    ELSE LET prev_text == done[Len(done)].text
             next == Head(rest)
         IN IF Len(prev_text) > OverlapSize
            THEN AddOverlapFrom(
                    Append(done, [next EXCEPT !.text =
                              Ellipsis \o OverlapText(prev_text) \o BlankLine \o next.text]),
                    Tail(rest))
            ELSE AddOverlapFrom(Append(done, next), Tail(rest))

\* chunker.py _add_overlap.
AddOverlap(chunks) ==
    IF Len(chunks) <= 1 THEN chunks
    ELSE AddOverlapFrom(<<chunks[1]>>, Tail(chunks))

\* chunker.py chunk_document lines 89-137: the chunks before the overlap.
ChunksBeforeOverlap(text, document_id, title, metadata) ==
    LET articles == SplitByArticles(CleanText(text))
        pieces == Flatten([k \in 1..Len(articles) |-> ArticlePieces(articles[k])])
        base_metadata == BaseMetadata(metadata, document_id, title)
    IN [k \in 1..Len(pieces) |->
           [text |-> pieces[k].text,
            index |-> k - 1,
            document_id |-> document_id,
            article |-> pieces[k].article,
            chunk_type |-> pieces[k].chunk_type,
            metadata |-> DictSet(base_metadata, "article", pieces[k].article)]]

\* chunker.py line 82: `not text or not text.strip()`.
Blank(text) == text = <<>> \/ Strip(text) = <<>>

\* chunker.py chunk_document (and chunk_legal_document, which calls it with
\* the default sizes).
ChunkDocument(text, document_id, title, metadata) ==
    IF Blank(text) THEN <<>>
    ELSE AddOverlap(ChunksBeforeOverlap(text, document_id, title, metadata))

\* A call of chunk_legal_document that has not run yet; metadata is the
\* caller's object.
ChunkerCall(text, document_id, title, metadata) ==
    [pc |-> "called",
     text |-> text, document_id |-> document_id, title |-> title,
     metadata |-> metadata,
     passed |-> metadata,    \* ghost: the metadata as it was when passed
     chunks |-> <<>>,        \* the list returned
     raw |-> <<>>]           \* ghost: the chunks before _add_overlap

NoMetadata == [given |-> FALSE, items |-> EmptyDict]

\* No call of chunk_legal_document is being made.
IdleChunker == [ChunkerCall(<<>>, None, "", NoMetadata) EXCEPT !.pc = "idle"]

Init ==
    /\ chat = IdleChat(DefaultSettings)
    /\ chunker = IdleChunker
    /\ running_jobs = {}
    /\ issued = 0
    /\ response = [status |-> "none", job_id |-> 0, forced |-> FALSE]
    /\ tasks = [j \in Jobs |-> IdleTask]
    /\ queue = <<>>
    /\ produced = 0
    /\ subs = [s \in Subs |-> [st |-> "idle", got |-> <<>>, last_yield |-> "none",
                             put_before |-> 0, got_before |-> 0]]
    /\ collection \in
         {[initialized |-> FALSE, chunks |-> {}],
          [initialized |-> TRUE, chunks |-> {}],
          [initialized |-> TRUE,
           chunks |-> {[id |-> <<"PQ-60", 0>>, source_url |-> "lex.uz/docs/1"]}]}

(***************************************************************************)
(* POST /api/scout/trigger                                                  *)
(***************************************************************************)
Requests(keywordLists) == [keywords : keywordLists, force_refresh : BOOLEAN]

\* scout.py trigger_scout, line 101: any(_running_jobs.values()).
AnyRunning(jobs) == jobs # {}

\* Mutant of Rejected: the flag is read the wrong way round.
RejectedWhenForced(running, force_refresh) == running /\ force_refresh

\* scout.py trigger_scout, line 102: the request is turned away.
Rejected(running, force_refresh) == running /\ ~force_refresh

\* scout.py trigger_scout. The whole handler runs without suspension.
trigger_scout(request) ==
    IF Rejected(AnyRunning(running_jobs), request.force_refresh)
    THEN /\ response' = [status |-> "already_running", job_id |-> 0,
                          forced |-> request.force_refresh]
         /\ UNCHANGED <<chat, chunker, running_jobs, issued, tasks, queue, produced, subs, collection>>
    ELSE /\ issued < MaxJobs
         /\ LET job_id == issued + 1 IN
            /\ issued' = job_id
            /\ running_jobs' = running_jobs \cup {job_id}
            /\ tasks' = [tasks EXCEPT ![job_id] =
                           [IdleTask EXCEPT !.pc = "pending",
                                            !.keywords = SearchKeywords(request.keywords)]]
            /\ response' = [status |-> "started", job_id |-> job_id,
                             forced |-> request.force_refresh]
         /\ UNCHANGED <<chat, chunker, queue, produced, subs, collection>>

(***************************************************************************)
(* The background task run_scout_cycle(job_id) and ScoutAgent.run_cycle     *)
(***************************************************************************)
\* Mutant of PopJob: the entry is left in the registry.
PopJobForgotten(jobs, job_id) == jobs

\* scout.py run_scout_cycle, line 188: _running_jobs.pop(job_id, None).
PopJob(jobs, job_id) == jobs \ {job_id}

\* agent.py run_cycle lines 93 and 129: the judge loop goes on, or the ingest
\* loop starts, or returns at once when nothing is relevant.
AfterJudge(i, candidates, relevant_docs) ==
    IF i < Len(candidates) THEN "judge"
    ELSE IF relevant_docs # <<>> THEN "ingest" ELSE "finish"

\* The index of the next iteration: a loop that has run out leaves the index
\* of the following loop, 0.
LoopIndex(i, items) == IF i < Len(items) THEN i ELSE 0

\* Mutant of AfterIngest: the ingest loop hands back to the judge loop.
AfterIngestRejudge(i, relevant_docs) ==
    IF i < Len(relevant_docs) THEN "ingest" ELSE "judge"

\* Mutant of AfterIngest: the stage is left after its first document.
AfterIngestStop(i, relevant_docs) == "finish"

\* agent.py run_cycle lines 129 and 179: the ingest loop goes on or returns.
AfterIngest(i, relevant_docs) ==
    IF i < Len(relevant_docs) THEN "ingest" ELSE "finish"

\* scout.py run_scout_cycle lines 153-161 and agent.py run_cycle lines 56-59:
\* the agent is built and announces the search.
StartCycle(j) ==
    /\ tasks[j].pc = "pending"
    /\ Put(Event("search", "start", 5, j))
    /\ tasks' = [tasks EXCEPT ![j].pc = "search", ![j].i = 0]
    /\ UNCHANGED <<chat, chunker, running_jobs, issued, response, subs, collection>>

\* scout.py run_scout_cycle lines 179-188: what is raised inside the try block
\* ends the run with an error event. No statement of run_cycle lets an
\* exception escape (every external call is inside a handler that has
\* `progress` bound, or swallows its own exceptions), so the only source is
\* the set-up of the agent, lines 155-161.
FatalError(j) ==
    /\ tasks[j].pc = "pending"
    /\ Put(Event("error", "fatal", 0, j))
    /\ running_jobs' = PopJob(running_jobs, j)
    /\ tasks' = [tasks EXCEPT ![j].pc = "failed"]
    /\ UNCHANGED <<chat, chunker, issued, response, subs, collection>>

\* agent.py run_cycle lines 62-81: one keyword. _search_lex_uz never raises,
\* so the handler of lines 76-81 is not entered.
SearchKeyword(j, out) ==
    LET t == tasks[j]
        n == Len(t.keywords)
        results == SearchLexUz(out)
        progress == SearchProgress(t.i, n)
    IN
    /\ t.pc = "search"
    /\ t.i < n
    /\ Put(Event("search", "keyword", progress, j))
    /\ tasks' = [tasks EXCEPT ![j] =
                   [t EXCEPT !.candidates = t.candidates \o results,
                             !.progress = progress,
                             !.i = t.i + 1,
                             !.log = Append(t.log, <<"search", t.keywords[t.i + 1]>>),
                             !.failures = t.failures + (IF out.raised THEN 1 ELSE 0)]]
    /\ UNCHANGED <<chat, chunker, running_jobs, issued, response, subs, collection>>

\* agent.py run_cycle lines 83-89.
DedupCandidates(j) ==
    LET t == tasks[j]
        unique == Deduplicate(t.candidates)
    IN
    /\ t.pc = "search"
    /\ t.i = Len(t.keywords)
    /\ Put(Event("search", "total", 20, j))
    /\ tasks' = [tasks EXCEPT ![j] =
                   [t EXCEPT !.candidates = unique,
                             !.raw = t.candidates,
                             !.i = 0,
                             !.log = Append(t.log, <<"dedup", "">>),
                             !.pc = AfterJudge(0, unique, <<>>)]]
    /\ UNCHANGED <<chat, chunker, running_jobs, issued, response, subs, collection>>

\* agent.py run_cycle lines 93-125: one candidate. getRaised and answer are
\* what collection.get and the LLM call do.
JudgeCandidate(j, getRaised, answer) ==
    LET t == tasks[j]
        doc == t.candidates[t.i + 1]
        indexed == IsAlreadyIndexed(doc.url, getRaised)
        is_relevant == JudgeRelevance(doc.title, answer)
        progress == JudgeProgress(t.i, Len(t.candidates))
        relevant_docs == IF is_relevant THEN Append(t.relevant_docs, doc)
                         ELSE t.relevant_docs
        lookup == IF indexed THEN "exists_found"
                  ELSE IF collection.initialized /\ doc.url # "" /\ getRaised
                  THEN "exists_raised" ELSE "exists_absent"
        checked == Append(t.log, <<lookup, doc.url>>)
    IN
    /\ t.pc = "judge"
    /\ t.i < Len(t.candidates)
    /\ IF indexed
       THEN /\ tasks' = [tasks EXCEPT ![j] =
                           [t EXCEPT !.i = LoopIndex(t.i + 1, t.candidates),
                                     !.raw = <<>>,
                                     !.log = checked,
                                     !.pc = AfterJudge(t.i + 1, t.candidates, t.relevant_docs)]]
            /\ UNCHANGED <<queue, produced>>
       ELSE /\ Put(Event("judge", IF is_relevant THEN "relevant" ELSE "irrelevant", progress, j))
            /\ tasks' = [tasks EXCEPT ![j] =
                           [t EXCEPT !.i = LoopIndex(t.i + 1, t.candidates),
                                     !.raw = <<>>,
                                     !.progress = progress,
                                     !.relevant_docs = relevant_docs,
                                     !.log = Append(checked, <<"judge", doc.url>>),
                                     !.failures = t.failures
                                         + (IF doc.title # "" /\ answer = "raised" THEN 1 ELSE 0),
                                     !.pc = AfterJudge(t.i + 1, t.candidates, relevant_docs)]]
    /\ UNCHANGED <<chat, chunker, running_jobs, issued, response, subs, collection>>

\* agent.py run_cycle lines 129-177: one relevant document. scrape and
\* addRaised are what the page fetch and collection.add do.
IngestDocument(j, scrape, addRaised) ==
    LET t == tasks[j]
        doc == t.relevant_docs[t.i + 1]
        content == ScrapeDocument(doc.url, scrape)
        chunks == ChunkRecords(doc)
        progress == IngestProgress(t.i, Len(t.relevant_docs))
        scraped == Append(t.log, <<"scrape", doc.url>>)
        next == AfterIngest(t.i + 1, t.relevant_docs)
    IN
    /\ t.pc = "ingest"
    /\ t.i < Len(t.relevant_docs)
    /\ IF content = None \/ content = ""
       THEN \* lines 134-135: nothing to store, no event
            /\ tasks' = [tasks EXCEPT ![j] =
                           [t EXCEPT !.i = t.i + 1, !.log = scraped, !.pc = next,
                                     !.failures = t.failures
                                         + (IF scrape = "raised" THEN 1 ELSE 0)]]
            /\ UNCHANGED <<queue, produced, collection>>
       ELSE IF chunks # {} /\ collection.initialized /\ addRaised
       THEN \* lines 172-177: the handler reports with the last value of progress
            /\ Put(Event("error", "ingest_error", t.progress, j))
            /\ tasks' = [tasks EXCEPT ![j] =
                           [t EXCEPT !.i = t.i + 1, !.pc = next,
                                     !.log = Append(scraped, <<"add_raised", doc.url>>),
                                     !.failures = t.failures + 1]]
            /\ UNCHANGED collection
       ELSE /\ collection' =
                 IF chunks # {} /\ collection.initialized
                 THEN [collection EXCEPT !.chunks = CollectionAdd(collection.chunks, chunks)]
                 ELSE collection
            /\ Put(Event("ingest", "saved", progress, j))
            /\ tasks' = [tasks EXCEPT ![j] =
                           [t EXCEPT !.i = t.i + 1, !.pc = next,
                                     !.progress = progress,
                                     !.ingested_count = t.ingested_count + 1,
                                     !.log = IF chunks # {} /\ collection.initialized
                                             THEN Append(scraped, <<"add", doc.url>>)
                                             ELSE scraped]]
    /\ UNCHANGED <<chat, chunker, running_jobs, issued, response, subs>>

\* agent.py run_cycle line 179, the tally.
Tally(ingested_count, candidates) ==
    [returned |-> TRUE, ingested |-> ingested_count, checked |-> Len(candidates)]

\* agent.py run_cycle line 179 and scout.py run_scout_cycle lines 163-173 and
\* 187-188: the tally is returned, the complete event is put and the job is
\* removed from the registry, without suspension.
CompleteCycle(j) ==
    LET t == tasks[j] IN
    /\ t.pc = "finish"
    /\ Put(Event("complete", "done", 100, j))
    /\ running_jobs' = PopJob(running_jobs, j)
    /\ tasks' = [tasks EXCEPT ![j] =
                   [t EXCEPT !.pc = "done", !.raw = <<>>,
                             !.result = Tally(t.ingested_count, t.candidates)]]
    /\ UNCHANGED <<chat, chunker, issued, response, subs, collection>>

(***************************************************************************)
(* GET /api/scout/status: event_generator                                   *)
(***************************************************************************)
\* Mutant of Closing: only complete ends the stream.
ClosingOnComplete(event) == event.event_type = "complete"

\* scout.py event_generator line 67.
Closing(event) == event.event_type \in {"complete", "error"}

\* A client connects: the generator starts its loop.
Connect(s) ==
    /\ subs[s].st = "idle"
    /\ subs' = [subs EXCEPT ![s].st = "open",
                            ![s].put_before = produced,
                            ![s].got_before = produced - Len(queue)]
    /\ UNCHANGED <<chat, chunker, running_jobs, issued, response, tasks, queue, produced, collection>>

\* scout.py event_generator lines 51-68: queue.get() returns the head, the
\* event is yielded, and the loop ends on complete or error.
Deliver(s) ==
    /\ subs[s].st = "open"
    /\ queue # <<>>
    /\ LET event == Head(queue) IN
       subs' = [subs EXCEPT ![s].got = Append(@, event),
                            ![s].last_yield = "status_update",
                            ![s].st = IF Closing(event) THEN "closed" ELSE "open"]
    /\ queue' = QueueGet(queue)
    /\ UNCHANGED <<chat, chunker, running_jobs, issued, response, tasks, produced, collection>>

\* Mutant of Heartbeat: the timed-out read has taken the head of the queue
\* with it.
HeartbeatDropping(s) ==
    /\ subs[s].st = "open"
    /\ subs' = [subs EXCEPT ![s].last_yield = "heartbeat"]
    /\ queue' = IF queue = <<>> THEN queue ELSE QueueGet(queue)
    /\ UNCHANGED <<chat, chunker, running_jobs, issued, response, tasks, produced, collection>>

\* scout.py event_generator lines 70-75: wait_for(queue.get(), 30) timed out.
\* The read waited on an empty queue; an event put as the timeout expires
\* stays in the queue, since the cancelled get takes nothing.
Heartbeat(s) ==
    /\ subs[s].st = "open"
    /\ subs' = [subs EXCEPT ![s].last_yield = "heartbeat"]
    /\ UNCHANGED <<chat, chunker, running_jobs, issued, response, tasks, queue, produced, collection>>

(***************************************************************************)
(* Specifications                                                           *)
(***************************************************************************)
OneHit == {[href |-> "lex.uz/docs/1", title |-> "PQ-60 subsidiya"]}

KeywordLists == {<<"subsidiya">>, <<"subsidiya", "grant">>}

\* One step of the background task of job j, the collaborators answering from
\* the given sets.
RunStep(j, searches, gets, answers, scrapes, adds) ==
    \/ StartCycle(j)
    \/ FatalError(j)
    \/ \E out \in searches : SearchKeyword(j, out)
    \/ DedupCandidates(j)
    \/ \E getRaised \in gets : \E answer \in answers : JudgeCandidate(j, getRaised, answer)
    \/ \E scrape \in scrapes : \E addRaised \in adds : IngestDocument(j, scrape, addRaised)
    \/ CompleteCycle(j)

\* A search that fails or finds the one document.
FailOrFind == {out \in SearchOutcomes(OneHit, 1) : out.raised \/ out.results # <<>>}

\* Admission and concurrency: triggers with and without force_refresh, runs
\* side by side on the one queue.
Next ==
    \/ \E request \in Requests({<<"subsidiya">>}) : trigger_scout(request)
    \/ \E j \in Jobs :
          RunStep(j, FailOrFind, {FALSE}, {"YES"}, {"content"}, BOOLEAN)

Spec == Init /\ [][Next]_vars

\* The status stream: one run and the subscribers of GET /status.
NextBus ==
    \/ \E request \in Requests({<<"subsidiya">>}) :
          ~request.force_refresh /\ issued = 0 /\ trigger_scout(request)
    \/ \E j \in Jobs :
          RunStep(j, FailOrFind, {FALSE}, {"YES", "NO"}, {"content"}, BOOLEAN)
    \/ \E s \in Subs : Connect(s)
    \/ \E s \in Subs : Deliver(s)
    \/ \E s \in Subs : Heartbeat(s)

SpecBus == Init /\ [][NextBus]_vars

\* One run, with every result list a keyword search can return and every
\* answer of the collaborators.
NextCycle ==
    \/ \E request \in Requests(KeywordLists) :
          ~request.force_refresh /\ issued = 0 /\ trigger_scout(request)
    \/ \E j \in Jobs :
          RunStep(j, SearchOutcomes(Hits, MaxResults), BOOLEAN, JudgeAnswers,
                  ScrapeOutcomes, BOOLEAN)

SpecCycle == Init /\ [][NextCycle]_vars

\* One run whose background task is scheduled until it has ended: the event
\* loop resumes a coroutine whose awaited call has returned or raised, and
\* every call of the collaborators returns or raises.
SpecCycleFair ==
    /\ Init
    /\ [][NextCycle]_vars
    /\ \A j \in Jobs :
          WF_vars(RunStep(j, SearchOutcomes(Hits, MaxResults), BOOLEAN, JudgeAnswers,
                          ScrapeOutcomes, BOOLEAN))

(***************************************************************************)
(* POST /api/chat                                                           *)
(***************************************************************************)
Messages == {"subsidiya bormi?", "grant"}
ChatRequests == [message : Messages, conversation_id : {None, "conv-1"}]

\* All the orders in which the members of S can be listed.
Orderings(S) ==
    {seq \in [1..Cardinality(S) -> S] :
        \A a, b \in 1..Cardinality(S) : a # b => seq[a] # seq[b]}

\* The float 1.0 of chat.py line 68. Distances and scores are fixed-point
\* numbers counted in ten-thousandths.
One == 10000

\* The distances collection.query can report. The collection is created with
\* the store's default squared-L2 metric (main.py line 50), so a distance is
\* never negative. No value lies half way between two thousandths.
Distances == {0, 4, 3333, 9996, One, 15000}

\* chat.py lines 52-56, collection.query: it raises, or returns the stored
\* chunks nearest to the message (all of them while fewer than top_k_results
\* are stored), nearest first, each with its distance.
QueryOutcomes(chunks) ==
    {[raised |-> TRUE, documents |-> <<>>]}
       \cup {[raised |-> FALSE,
              documents |-> [k \in 1..Len(seq) |->
                               [id |-> seq[k].id, source_url |-> seq[k].source_url,
                                document |-> seq[k].document, distance |-> d[k]]]] :
                seq \in Orderings(chunks),
                d \in {f \in [1..Cardinality(chunks) -> Distances] :
                          \A a, b \in 1..Cardinality(chunks) : a <= b => f[a] <= f[b]}}

\* Python's round(x, 3) of a fixed-point number: the nearest thousandth, the
\* even one of two equally near.
RoundTo3(x) ==
    LET down == x - (x % 10)
    IN IF x % 10 < 5 THEN down
       ELSE IF x % 10 > 5 THEN down + 10
       ELSE IF (down \div 10) % 2 = 0 THEN down ELSE down + 10

\* Mutant of RelevanceScore: the lower clamp is gone.
RelevanceScoreUnclamped(distance) == RoundTo3(One - distance)

\* chat.py lines 68 and 74: round(max(0, 1 - distance), 3).
RelevanceScore(distance) == RoundTo3(Max(0, One - distance))

\* The number of characters of a passage an excerpt keeps (300 in chat.py).
ExcerptSize == 3

\* The "..." of chat.py line 75.
ExcerptEllipsis == <<".", ".", ".">>

\* Mutant of Excerpt: the conditional binds to the ellipsis only.
ExcerptConditionalEllipsis(doc) ==
    Slice(doc, 0, ExcerptSize) \o (IF Len(doc) > ExcerptSize THEN ExcerptEllipsis ELSE doc)

\* chat.py line 75: doc[:300] + "..." if len(doc) > 300 else doc.
Excerpt(doc) ==
    IF Len(doc) > ExcerptSize THEN Slice(doc, 0, ExcerptSize) \o ExcerptEllipsis ELSE doc

\* chat.py lines 70-76: the DocumentSource of one retrieved passage.
MakeSource(c) ==
    [document_id |-> c.id[1], url |-> c.source_url,
     relevance_score |-> RelevanceScore(c.distance),
     excerpt |-> Excerpt(c.document)]

\* chat.py lines 59-78.
MakeSources(documents) == [k \in 1..Len(documents) |-> MakeSource(documents[k])]

\* schemas.py DocumentSource line 50: relevance_score has ge=0 and le=1.
ValidSource(source) == 0 <= source.relevance_score /\ source.relevance_score <= One

\* The outcome of a call: it raised `text`, or returned `text`; called tells
\* whether the provider's API was reached.
Raised(text, called) == [raised |-> TRUE, text |-> text, called |-> called]
Returned(text) == [raised |-> FALSE, text |-> text, called |-> TRUE]

LlmOutcomes == {"answer", "raised"}

\* chat.py _call_groq; out is what the Groq API does.
CallGroq(settings, out) ==
    IF settings.groq_api_key = "" THEN Raised("Groq API key not configured", FALSE)
    ELSE IF out = "raised" THEN Raised("api error", TRUE)
    ELSE Returned(<<"answer">>)

\* chat.py _call_gemini; out is what the Gemini API does.
CallGemini(settings, out) ==
    IF settings.google_api_key = "" THEN Raised("Google API key not configured", FALSE)
    ELSE IF out = "raised" THEN Raised("api error", TRUE)
    ELSE Returned(<<"answer">>)

\* chat.py line 159: the fallback text with str(e) appended.
Apology(error) == <<"Kechirasiz ... Xatolik: ", error>>

\* Mutant of GenerateLlmResponse: the exception is not caught.
GenerateLlmResponsePropagating(settings, out) ==
    IF settings.llm_provider = "groq" THEN CallGroq(settings, out)
    ELSE CallGemini(settings, out)

\* chat.py generate_llm_response lines 152-159.
GenerateLlmResponse(settings, out) ==
    LET r == IF settings.llm_provider = "groq" THEN CallGroq(settings, out)
             ELSE CallGemini(settings, out)
    IN IF r.raised THEN [raised |-> FALSE, text |-> Apology(r.text), called |-> r.called]
       ELSE r

\* Mutant of StoreMissing: the guard of the query is gone.
StoreMissingIgnored(coll) == FALSE

\* chat.py line 45: `not app_state.chroma_collection`.
StoreMissing(coll) == ~coll.initialized

\* chat.py lines 117-120: the detail of the 500 answer.
ErrorDetail(settings, error) ==
    IF settings.debug THEN <<"Chat error: ", error>>
    ELSE <<"Xatolik yuz berdi. Iltimos, qaytadan urinib ko'ring.">>

\* chat.py chat lines 38-98 (and 115-120): from the request to the await of
\* the generation. query is what collection.query does.
chat_request(request, query) ==
    LET fresh == [IdleChat(chat.settings) EXCEPT !.request = request] IN
    /\ chat.pc \in {"idle", "returned"}
    /\ chat' =
         IF StoreMissing(collection)
         THEN [fresh EXCEPT !.pc = "returned", !.status_code = 503,
                            !.detail = <<"Vector database not initialized. Please seed the database first.">>]
         ELSE IF query.raised
         THEN [fresh EXCEPT !.pc = "returned", !.status_code = 500,
                            !.detail = ErrorDetail(chat.settings, "query error")]
         ELSE IF \E k \in 1..Len(query.documents) :
                      ~ValidSource(MakeSources(query.documents)[k])
         THEN [fresh EXCEPT !.pc = "returned", !.status_code = 500,
                            !.retrieved = [done |-> TRUE, documents |-> query.documents],
                            !.detail = ErrorDetail(chat.settings, "validation error")]
         ELSE [fresh EXCEPT !.pc = "generating",
                            !.retrieved = [done |-> TRUE, documents |-> query.documents],
                            !.sources = MakeSources(query.documents)]
    /\ UNCHANGED <<running_jobs, issued, response, tasks, queue, produced, subs,
                   collection, chunker>>

\* chat.py chat lines 99-120: the generation returns and the answer is built.
\* out is what the provider's API does.
chat_generate(out) ==
    LET r == GenerateLlmResponse(chat.settings, out)
        inner == IF chat.settings.llm_provider = "groq" THEN CallGroq(chat.settings, out)
                 ELSE CallGemini(chat.settings, out)
        noted == [chat EXCEPT !.pc = "returned",
                              !.llm_calls = IF r.called THEN 1 ELSE 0,
                              !.llm_error = IF inner.raised THEN inner.text ELSE None]
    IN
    /\ chat.pc = "generating"
    /\ chat' =
         IF r.raised
         THEN [noted EXCEPT !.status_code = 500,
                            !.detail = ErrorDetail(chat.settings, r.text),
                            !.sources = <<>>]
         ELSE [noted EXCEPT !.status_code = 200, !.response = r.text]
    /\ UNCHANGED <<running_jobs, issued, response, tasks, queue, produced, subs,
                   collection, chunker>>

\* The stored chunks a chat request can find.
\* A passage of n characters.
Passage(n) == [k \in 1..n |-> IF k % 2 = 1 THEN "a" ELSE "b"]

StoredChunks ==
    {[id |-> <<"PQ-60", 0>>, source_url |-> "lex.uz/docs/1",
      document |-> Passage(ExcerptSize)],
     [id |-> <<"PQ-60", 1>>, source_url |-> "lex.uz/docs/1",
      document |-> Passage(ExcerptSize + 2)]}

InitChat ==
    /\ chat \in {IdleChat(settings) : settings \in ChatSettings}
    /\ chunker = IdleChunker
    /\ running_jobs = {}
    /\ issued = 0
    /\ response = [status |-> "none", job_id |-> 0, forced |-> FALSE]
    /\ tasks = [j \in Jobs |-> IdleTask]
    /\ queue = <<>>
    /\ produced = 0
    /\ subs = [s \in Subs |-> [st |-> "idle", got |-> <<>>, last_yield |-> "none",
                             put_before |-> 0, got_before |-> 0]]
    /\ collection \in
         {[initialized |-> FALSE, chunks |-> {}]}
            \cup {[initialized |-> TRUE, chunks |-> stored] : stored \in SUBSET StoredChunks}

NextChat ==
    \/ \E request \in ChatRequests, query \in QueryOutcomes(collection.chunks) :
          chat_request(request, query)
    \/ \E out \in LlmOutcomes : chat_generate(out)

\* One chat endpoint, one request at a time, every configuration.
SpecChat == InitChat /\ [][NextChat]_vars

(***************************************************************************)
(* chunk_legal_document                                                     *)
(***************************************************************************)
\* Every text of at most n characters.
TextsUpTo(n) == UNION {[1..k -> Chars] : k \in 0..n}

\* The metadata arguments: None, an empty dict, and the dict run_cycle
\* passes (agent.py lines 144-147; date_scraped left out).
MetadataArgs ==
    {NoMetadata,
     [given |-> TRUE, items |-> EmptyDict],
     [given |-> TRUE, items |-> [k \in {"source_url"} |-> "lex.uz/docs/1"]]}

\* chunker.py chunk_legal_document: the whole call; the caller's metadata
\* object is left as lines 85-87 leave it.
chunk_legal_document ==
    LET c == chunker
        blank == Blank(c.text)
    IN
    /\ c.pc = "called"
    /\ chunker' =
         [c EXCEPT !.pc = "returned",
                   !.chunks = ChunkDocument(c.text, c.document_id, c.title, c.metadata),
                   !.raw = IF blank THEN <<>>
                           ELSE ChunksBeforeOverlap(c.text, c.document_id, c.title, c.metadata),
                   !.metadata = IF blank THEN c.metadata
                                ELSE MetadataAfter(c.metadata, c.document_id, c.title)]
    /\ UNCHANGED <<running_jobs, issued, response, tasks, queue, produced, subs,
                   collection, chat>>

InitChunk ==
    /\ chunker \in {ChunkerCall(text, "PQ-60", "Qaror", metadata) :
                       text \in TextsUpTo(MaxTextLen), metadata \in MetadataArgs}
    /\ chat = IdleChat(DefaultSettings)
    /\ running_jobs = {}
    /\ issued = 0
    /\ response = [status |-> "none", job_id |-> 0, forced |-> FALSE]
    /\ tasks = [j \in Jobs |-> IdleTask]
    /\ queue = <<>>
    /\ produced = 0
    /\ subs = [s \in Subs |-> [st |-> "idle", got |-> <<>>, last_yield |-> "none",
                             put_before |-> 0, got_before |-> 0]]
    /\ collection = [initialized |-> FALSE, chunks |-> {}]

NextChunk == chunk_legal_document

\* One call of the chunker on every text and metadata argument.
SpecChunk == InitChunk /\ [][NextChunk]_vars

\* The most lines a text of numbered lines has.
MaxLines == 3

\* Lines of a document whose provisions are numbered "3. ..." (the third of
\* ARTICLE_PATTERNS, chunker.py line 38), and lines that look alike.
Lines ==
    {<<"3", ".", " ", "a">>, <<"a">>, <<"3", ".">>, <<"3", "a">>, <<".", " ", "a">>}

\* The texts of one to MaxLines such lines.
LinedTexts ==
    {Join(lines, <<"\n">>) : lines \in UNION {[1..n -> Lines] : n \in 1..MaxLines}}

InitNumbered ==
    /\ chunker \in {ChunkerCall(text, "PQ-60", "Qaror", metadata) :
                       text \in LinedTexts, metadata \in MetadataArgs}
    /\ chat = IdleChat(DefaultSettings)
    /\ running_jobs = {}
    /\ issued = 0
    /\ response = [status |-> "none", job_id |-> 0, forced |-> FALSE]
    /\ tasks = [j \in Jobs |-> IdleTask]
    /\ queue = <<>>
    /\ produced = 0
    /\ subs = [s \in Subs |-> [st |-> "idle", got |-> <<>>, last_yield |-> "none",
                             put_before |-> 0, got_before |-> 0]]
    /\ collection = [initialized |-> FALSE, chunks |-> {}]

\* One call of chunk_legal_document on a text of numbered lines.
SpecNumbered == InitNumbered /\ [][NextChunk]_vars

(***************************************************************************)
(* Claims                                                                   *)
(***************************************************************************)
Started(j) == tasks[j].pc \notin {"idle"}
Ended(j) == tasks[j].pc \in {"done", "failed"}
Active(j) == Started(j) /\ ~Ended(j)

\* C1: a trigger request that arrives while a job is registered as running
\* and does not set force_refresh is answered already_running, schedules no
\* task and leaves the registry (and everything but the response) unchanged.
C1_RejectedWhileRunning ==
    [][\A request \in Requests({<<"subsidiya">>}) :
          (running_jobs # {} /\ ~request.force_refresh /\ trigger_scout(request))
          => /\ response'.status = "already_running"
             /\ response'.job_id = 0
             /\ running_jobs' = running_jobs
             /\ tasks' = tasks
             /\ issued' = issued
             /\ queue' = queue]_vars

\* C1 witness: a request without force_refresh was turned away while a job
\* was running.
C1_Witness ==
    /\ response.status = "already_running"
    /\ ~response.forced
    /\ running_jobs # {}

\* C2: once a run has ended, with a complete event or a fatal error and with
\* or without per-item failures, its job id is not in the registry; the
\* registry holds exactly the runs that have not ended, so with every run
\* ended a trigger without force_refresh is not turned away.
C2_RegistryFreedAtEnd ==
    /\ \A j \in Jobs : Ended(j) => j \notin running_jobs
    /\ running_jobs = {j \in Jobs : Active(j)}
    /\ (\A j \in Jobs : ~Active(j)) => ~Rejected(AnyRunning(running_jobs), FALSE)

\* C2 witness: job 1 ended after an insert into the vector store had failed,
\* and the trigger without force_refresh that followed was admitted as job 2.
C2_Witness ==
    /\ tasks[1].pc = "done"
    /\ \E k \in 1..Len(tasks[1].log) : tasks[1].log[k][1] = "add_raised"
    /\ response = [status |-> "started", job_id |-> 2, forced |-> FALSE]
    /\ running_jobs = {2}

\* The events of job j that are in the queue, in put order. Where nothing
\* reads the queue these are all the events the run has put.
EventsOf(j) == SelectSeq(queue, LAMBDA e : e.job = j)

Count(log, op) == Cardinality({k \in 1..Len(log) : log[k][1] = op})

\* C3: within one run the progress values of the successive events the run
\* puts on the queue never decrease, the per-item error events and the
\* terminal event included.
C3_ProgressMonotonic ==
    \A j \in Jobs :
       LET es == EventsOf(j) IN
       \A a, b \in 1..Len(es) : a < b => es[a].progress <= es[b].progress

\* C3 witness: a finished run that put a search, a judge, an ingest, a
\* per-item error and the complete event.
C3_Witness ==
    \E j \in Jobs :
       LET es == EventsOf(j) IN
       /\ tasks[j].pc = "done"
       /\ \A type \in {"search", "judge", "ingest", "error", "complete"} :
             \E k \in 1..Len(es) : es[k].event_type = type

\* C4 as stated: no event that had been put before a subscriber connected is
\* delivered to that subscriber.
C4_NothingFromBeforeConnect ==
    \A s \in Subs : \A k \in 1..Len(subs[s].got) :
       subs[s].got[k].seq > subs[s].put_before

\* C4 amended: the queue hands every event out at most once. An event that a
\* subscriber had got before another connected is never delivered to the
\* latter, no event is delivered twice or to two subscribers, and events put
\* before a subscriber connected that were still in the queue are delivered
\* to it in put order.
C4_NoRedelivery ==
    /\ \A s \in Subs : \A k \in 1..Len(subs[s].got) :
          /\ subs[s].got[k].seq > subs[s].got_before
          /\ subs[s].got[k].seq <= produced - Len(queue)
          /\ \A m \in 1..(k - 1) : subs[s].got[m].seq < subs[s].got[k].seq
    /\ \A s, r \in Subs : s # r =>
          \A k \in 1..Len(subs[s].got) : \A m \in 1..Len(subs[r].got) :
             subs[s].got[k].seq # subs[r].got[m].seq
    /\ \A k \in 1..Len(queue) : queue[k].seq = produced - Len(queue) + k

\* C4 witness: a subscriber connected after another one had consumed events,
\* and was delivered an event that had been put before it connected.
C4_Witness ==
    \E s \in Subs :
       /\ subs[s].got_before > 0
       /\ subs[s].got # <<>>
       /\ subs[s].got[1].seq <= subs[s].put_before

C6_ItemFailureDoesNotAbort ==
    \A j \in Jobs :
       LET t == tasks[j] IN
       /\ t.pc = "done" =>
             /\ t.result.returned
             /\ Count(t.log, "search") = Len(t.keywords)
             /\ Count(t.log, "exists_found") + Count(t.log, "exists_absent")
                   + Count(t.log, "exists_raised") = Len(t.candidates)
             /\ Count(t.log, "scrape") = Len(t.relevant_docs)
       /\ t.pc = "failed" => t.log = <<>>
       /\ t.failures > 0 \/ Count(t.log, "add_raised") > 0 => t.pc # "failed"

\* C6 witness: a run returned its tally with a document ingested although a
\* search, a relevance judgment, a page fetch and an insert had failed in it.
C6_Witness ==
    \E j \in Jobs :
       LET t == tasks[j] IN
       /\ t.pc = "done"
       /\ t.result.returned
       /\ t.result.ingested >= 1
       /\ t.failures >= 3
       /\ Count(t.log, "add_raised") >= 1

ErrorEvents(j) ==
    Cardinality({k \in 1..Len(queue) :
                    queue[k].job = j /\ queue[k].event_type = "error"})

\* C7: every search, judge or fetch call of a run that failed has been
\* reported by an error event of that run.
C7_FailuresReported ==
    \A j \in Jobs : ErrorEvents(j) >= tasks[j].failures

(* Deduplication, stated without the algorithm. *)
UrlsIn(docs) == {docs[k].url : k \in 1..Len(docs)}

FirstIndex(docs, url) ==
    CHOOSE k \in 1..Len(docs) :
       docs[k].url = url /\ \A m \in 1..(k - 1) : docs[m].url # url

\* `unique` has exactly one entry for each url of `urls`, the first document
\* of `docs` with that url, in the order of the first occurrences.
OnePerUrl(docs, unique, urls) ==
    /\ Len(unique) = Cardinality(urls)
    /\ \A url \in urls :
          \E k \in 1..Len(unique) : unique[k] = docs[FirstIndex(docs, url)]
    /\ \A k \in 1..Len(unique) : unique[k].url \in urls
    /\ \A a, b \in 1..Len(unique) :
          a < b => FirstIndex(docs, unique[a].url) < FirstIndex(docs, unique[b].url)

\* The state right after the deduplication of job j: raw holds its input.
JustDeduplicated(j) ==
    /\ tasks[j].pc \in {"judge", "finish"}
    /\ tasks[j].log # <<>>
    /\ tasks[j].log[Len(tasks[j].log)][1] = "dedup"

\* C8 as stated: the deduplicated list has exactly one entry for each
\* distinct url of the input, its first occurrence, in order of first
\* occurrence.
C8_OneEntryPerUrl ==
    \A j \in Jobs :
       JustDeduplicated(j) =>
          OnePerUrl(tasks[j].raw, tasks[j].candidates, UrlsIn(tasks[j].raw))

\* C8 amended: the deduplicated list has exactly one entry for each distinct
\* non-empty url of the input, its first occurrence (so the first-seen title
\* is kept), in order of first occurrence; results without a url are dropped.
C8_OneEntryPerNonEmptyUrl ==
    \A j \in Jobs :
       JustDeduplicated(j) =>
          OnePerUrl(tasks[j].raw, tasks[j].candidates, UrlsIn(tasks[j].raw) \ {""})

\* C8 witness: the input held two urls, one of them twice under different
\* titles and first, and a result without url; two entries are left.
C8_Witness ==
    \E j \in Jobs :
       LET raw == tasks[j].raw IN
       /\ JustDeduplicated(j)
       /\ Len(tasks[j].candidates) = 2
       /\ \E a, b \in 1..Len(raw) :
             a < b /\ raw[a].url = raw[b].url /\ raw[a].url # ""
                   /\ raw[a].title # raw[b].title
                   /\ tasks[j].candidates[1] = raw[a]
       /\ \E c \in 1..Len(raw) : raw[c].url = ""

(* The order of the calls of a run, read from its log. *)
Lookups == {"exists_found", "exists_absent", "exists_raised"}

StoredUrls == {c.source_url : c \in collection.chunks}

\* The positions of the log that are existence checks, in order.
RECURSIVE LookupsOf(_)
LookupsOf(log) ==
    IF log = <<>> THEN <<>>
    ELSE LET rest == LookupsOf(SubSeq(log, 1, Len(log) - 1))
             last == log[Len(log)]
         IN IF last[1] \in Lookups THEN Append(rest, last[2]) ELSE rest

\* Deduplication precedes every existence check, the k-th existence check is
\* about the k-th deduplicated candidate, and a judgment directly follows an
\* existence check of the same url, one whose outcome is in `passing`.
JudgedInOrder(t, passing) ==
    /\ \A k \in 1..Len(t.log) :
          t.log[k][1] \in Lookups =>
             \E d \in 1..(k - 1) : t.log[d][1] = "dedup"
    /\ LET looked == LookupsOf(t.log) IN
       /\ Len(looked) <= Len(t.candidates)
       /\ \A k \in 1..Len(looked) : looked[k] = t.candidates[k].url
    /\ \A k \in 1..Len(t.log) :
          t.log[k][1] = "judge" =>
             /\ k > 1
             /\ t.log[k - 1][1] \in passing
             /\ t.log[k - 1][2] = t.log[k][2]
    /\ \A k \in 1..Len(t.log) :
          /\ t.log[k][1] = "exists_found"
          /\ k < Len(t.log)
          => t.log[k + 1][1] # "judge"

\* The candidate of job j that has just been judged, if any.
JustJudged(j, url) ==
    /\ tasks[j].log # <<>>
    /\ tasks[j].log[Len(tasks[j].log)] = <<"judge", url>>

C10_TallyCountsWritten ==
    \A j \in Jobs :
       tasks[j].result.returned =>
          /\ tasks[j].result.checked = Len(tasks[j].candidates)
          /\ tasks[j].result.ingested = Count(tasks[j].log, "add")

\* C11: the relevance judgment fails open. A judge step whose classifier
\* call raises appends the candidate to the relevant documents, reports it
\* as relevant and leads on to the ingest stage; and a run that returned has
\* fetched every relevant document.
C11_JudgeFailsOpen ==
    [][/\ \A j \in Jobs, getRaised \in BOOLEAN :
             LET t == tasks[j]
                 doc == t.candidates[t.i + 1]
             IN (/\ JudgeCandidate(j, getRaised, "raised")
                 /\ ~IsAlreadyIndexed(doc.url, getRaised))
                => /\ tasks'[j].relevant_docs = Append(t.relevant_docs, doc)
                   /\ queue'[Len(queue')].event_type = "judge"
                   /\ queue'[Len(queue')].message = "relevant"
                   /\ tasks'[j].pc \in {"judge", "ingest"}
       /\ \A j \in Jobs :
             tasks'[j].pc = "done" =>
                \A k \in 1..Len(tasks'[j].relevant_docs) :
                   \E m \in 1..Len(tasks'[j].log) :
                      tasks'[j].log[m] = <<"scrape", tasks'[j].relevant_docs[k].url>>
      ]_vars

\* C11 witness: the only failure of a run with one search result was the
\* classifier call, and the document was fetched and stored.
C11_Witness ==
    \E j \in Jobs :
       LET t == tasks[j] IN
       /\ Len(t.keywords) = 1
       /\ Len(t.candidates) = 1
       /\ t.failures = 1
       /\ t.relevant_docs = t.candidates
       /\ Count(t.log, "judge") = 1
       /\ Count(t.log, "scrape") = 1
       /\ t.ingested_count = 1

\* C12: a run started while the vector store is not initialized never ends
\* with a complete event and reports no document as ingested.
C12_NoStoreIsFatal ==
    ~collection.initialized =>
       \A j \in Jobs :
          /\ tasks[j].pc # "done"
          /\ tasks[j].ingested_count = 0
          /\ \A k \in 1..Len(queue) :
                queue[k].job = j => queue[k].event_type \notin {"ingest", "complete"}

\* The API key of the selected provider (config.py active_api_key).
ActiveApiKey(settings) ==
    IF settings.llm_provider = "groq" THEN settings.groq_api_key
    ELSE settings.google_api_key

\* C13: while the vector store is not initialized a chat request is answered
\* with 503 and the provider's API is never called for it, nor is the
\* generation awaited.
C13_NoStoreNoGeneration ==
    ~collection.initialized =>
       /\ chat.pc # "generating"
       /\ chat.pc = "returned" =>
             /\ chat.status_code = 503
             /\ chat.response = NoText
             /\ chat.llm_calls = 0
             /\ chat.llm_error = None

\* C13 witness: a request was answered while the store was not initialized.
C13_Witness ==
    /\ ~collection.initialized
    /\ chat.pc = "returned"
    /\ chat.status_code = 503

\* C14: a generation that failed does not fail the request: the answer has
\* status 200, its text is the apology with the failure's description, and
\* its sources are those built from what the query returned.
C14_GenerationFailureAbsorbed ==
    (chat.pc = "returned" /\ chat.llm_error # None) =>
       /\ chat.status_code = 200
       /\ chat.detail = NoText
       /\ chat.response = Apology(chat.llm_error)
       /\ chat.sources = MakeSources(chat.retrieved.documents)

\* C14 witness: the provider's API was called and raised, two passages having
\* been retrieved.
C14_Witness ==
    /\ chat.pc = "returned"
    /\ chat.llm_error = "api error"
    /\ chat.llm_calls = 1
    /\ Len(chat.sources) = 2

\* C15: a request that reaches the generation while the selected provider has
\* no API key is answered with 503 and without an answer body.
C15_MissingCredentialIsFatal ==
    (/\ chat.pc = "returned"
     /\ chat.retrieved.done
     /\ ActiveApiKey(chat.settings) = "")
    => /\ chat.status_code = 503
       /\ chat.response = NoText

(* The chunker's results, read from a finished call. *)
ChunkerReturned == chunker.pc = "returned"

\* The text has a character that is not whitespace.
HasInk(text) == \E k \in 1..Len(text) : text[k] \notin Whitespace

\* C16: the text a chunk has before the overlap prefix is added is never
\* longer than max_size.
C16_ChunkWithinMaxSize ==
    ChunkerReturned =>
       \A k \in 1..Len(chunker.raw) : Len(chunker.raw[k].text) <= MaxSize

\* The texts of `chunks` occur in `text` one after the other, from `from` on.
RECURSIVE InSourceOrder(_, _, _)
InSourceOrder(chunks, text, from) ==
    \/ chunks = <<>>
    \/ LET at == FindFrom(text, Head(chunks).text, from) IN
       /\ at # -1
       /\ InSourceOrder(Tail(chunks), text, at + Len(Head(chunks).text))

\* C17: an empty or whitespace-only text gives no chunk; any other text
\* gives at least one, the chunk indices are 0, 1, ..., n-1 in output order,
\* and the chunks follow the order of the source: their texts (before the
\* overlap) occur one after the other in the cleaned text, a preamble chunk
\* comes before every article chunk and "general" is the article of a text
\* without marker.
C17_IndicesAndOrder ==
    ChunkerReturned =>
       LET chunks == chunker.chunks
           raw == chunker.raw
       IN
       /\ ~HasInk(chunker.text) => chunks = <<>>
       /\ HasInk(chunker.text) =>
             /\ chunks # <<>>
             /\ Len(raw) = Len(chunks)
             /\ \A k \in 1..Len(chunks) :
                   /\ chunks[k].index = k - 1
                   /\ chunks[k].article = raw[k].article
             /\ InSourceOrder(raw, CleanText(chunker.text), 0)
             /\ \A a, b \in 1..Len(chunks) :
                   (a < b /\ chunks[b].article = "preamble") => chunks[a].article = "preamble"
             /\ \A k \in 1..Len(chunks) :
                   chunks[k].article = "general"
                      <=> \A m \in 1..Len(chunker.text) : chunker.text[m] \notin Markers

\* C17 witness: a text with ink gave at least three chunks, a preamble chunk
\* first and an article chunk last, the last index being n-1.
C17_Witness ==
    /\ ChunkerReturned
    /\ Len(chunker.chunks) >= 3
    /\ chunker.chunks[1].article = "preamble"
    /\ chunker.chunks[Len(chunker.chunks)].article = "1-modda"
    /\ chunker.chunks[Len(chunker.chunks)].index = Len(chunker.chunks) - 1

\* chunk k is its text before the overlap, preceded by "..." + a suffix of
\* `prev_text` of at most overlap characters + a blank line.
Prefixed(k, prev_text) ==
    \E n \in 0..OverlapSize :
       /\ n <= Len(prev_text)
       /\ chunker.chunks[k].text =
             Ellipsis \o Slice(prev_text, Len(prev_text) - n, Len(prev_text))
                \o BlankLine \o chunker.raw[k].text

\* C18 as stated: the first chunk carries no prefix and every later chunk
\* starts with an overlap prefix whose fragment is a suffix of the previous
\* chunk's text of at most overlap_size characters.
C18_EveryLaterChunkPrefixed ==
    (ChunkerReturned /\ chunker.chunks # <<>>) =>
       /\ chunker.chunks[1].text = chunker.raw[1].text
       /\ \A k \in 2..Len(chunker.chunks) :
             \/ Prefixed(k, chunker.chunks[k - 1].text)
             \/ Prefixed(k, chunker.raw[k - 1].text)

\* C18 amended: the first chunk carries no prefix; a later chunk whose
\* previous chunk's returned text is longer than overlap_size starts with
\* the prefix, the fragment being a suffix of that returned text of at most
\* overlap_size characters; a later chunk whose previous chunk's returned
\* text is not longer than overlap_size carries no prefix.
C18_PrefixedAfterLongChunk ==
    (ChunkerReturned /\ chunker.chunks # <<>>) =>
       /\ chunker.chunks[1].text = chunker.raw[1].text
       /\ \A k \in 2..Len(chunker.chunks) :
             IF Len(chunker.chunks[k - 1].text) > OverlapSize
             THEN Prefixed(k, chunker.chunks[k - 1].text)
             ELSE chunker.chunks[k].text = chunker.raw[k].text

\* C18 witness: of three chunks the second follows a short chunk and has no
\* prefix, the third follows a longer one and has the prefix.
C18_Witness ==
    /\ ChunkerReturned
    /\ Len(chunker.chunks) = 3
    /\ chunker.chunks[2].text = chunker.raw[2].text
    /\ Len(chunker.chunks[2].text) > OverlapSize
    /\ chunker.chunks[3].text # chunker.raw[3].text

\* C19: a text with ink that is shorter than MIN_CHUNK_SIZE gives exactly
\* one chunk.
C19_ShortDocumentOneChunk ==
    (/\ ChunkerReturned
     /\ HasInk(chunker.text)
     /\ Len(chunker.text) < MinChunkSize)
    => Len(chunker.chunks) = 1

\* C20: the call leaves its arguments as they were passed, the caller's
\* metadata mapping included.
C20_ArgumentsUnchanged ==
    ChunkerReturned => chunker.metadata = chunker.passed

\* clamp(x, lo, hi).
Clamp(x, lo, hi) == IF x < lo THEN lo ELSE IF x > hi THEN hi ELSE x

\* The chat request has built the sources of the passages it retrieved.
SourcesBuilt == chat.retrieved.done /\ Len(chat.sources) = Len(chat.retrieved.documents)

\* C21 as stated: every source's relevance_score equals clamp(1 - d, 0, 1)
\* of its distance d, lies in [0,1], and no distance fails the request on the
\* score bound.
C21_ScoreIsClamp ==
    /\ chat.retrieved.done => chat.pc = "generating" \/ chat.status_code # 500
    /\ SourcesBuilt =>
         \A k \in 1..Len(chat.sources) :
            /\ chat.sources[k].relevance_score
                  = Clamp(One - chat.retrieved.documents[k].distance, 0, One)
            /\ chat.sources[k].relevance_score \in 0..One

\* C21, amended: every source's relevance_score is clamp(1 - d, 0, 1) rounded
\* to three decimals, for the non-negative distances d the store reports, and
\* lies in [0,1]: d=0 gives 1, d=1 gives 0, d=1.5 gives 0; once the passages
\* are retrieved the request never fails on the score bound.
C21_ScoreIsRoundedClamp ==
    /\ chat.retrieved.done => chat.pc = "generating" \/ chat.status_code # 500
    /\ SourcesBuilt =>
         \A k \in 1..Len(chat.sources) :
            LET d == chat.retrieved.documents[k].distance
                score == chat.sources[k].relevance_score
                exact == Clamp(One - d, 0, One)
            IN /\ score % 10 = 0
               /\ score - exact < 5 /\ exact - score < 5
               /\ score \in 0..One
               /\ d = 0 => score = One
               /\ d = One => score = 0
               /\ d = 15000 => score = 0

C21_Witness ==
    /\ chat.pc = "returned" /\ chat.status_code = 200
    /\ Len(chat.sources) = 2
    /\ chat.retrieved.documents[1].distance = 3333
    /\ chat.sources[1].relevance_score = 6670
    /\ chat.retrieved.documents[2].distance = 15000
    /\ chat.sources[2].relevance_score = 0

\* C22: every excerpt has at most ExcerptSize + 3 characters; a passage of at
\* most ExcerptSize characters is returned unmodified, a longer one is its
\* first ExcerptSize characters followed by three dots.
C22_ExcerptBounded ==
    SourcesBuilt =>
       \A k \in 1..Len(chat.sources) :
          LET doc == chat.retrieved.documents[k].document
              excerpt == chat.sources[k].excerpt
          IN /\ Len(excerpt) <= ExcerptSize + 3
             /\ Len(doc) <= ExcerptSize => excerpt = doc
             /\ Len(doc) > ExcerptSize =>
                   /\ Len(excerpt) = ExcerptSize + 3
                   /\ SubSeq(excerpt, 1, ExcerptSize) = SubSeq(doc, 1, ExcerptSize)
                   /\ \A n \in ExcerptSize + 1..ExcerptSize + 3 : excerpt[n] = "."

C22_Witness ==
    /\ chat.pc = "returned" /\ chat.status_code = 200
    /\ \E k, m \in 1..Len(chat.sources) :
          /\ Len(chat.retrieved.documents[k].document) = ExcerptSize
          /\ chat.sources[k].excerpt = chat.retrieved.documents[k].document
          /\ Len(chat.retrieved.documents[m].document) > ExcerptSize
          /\ Len(chat.sources[m].excerpt) = ExcerptSize + 3

\* C23: in the run a trigger with force_refresh starts, every candidate whose
\* URL is found in the vector store is judged all the same instead of being
\* skipped.
C23_ForcedRunReprocesses ==
    response.status = "started" /\ response.forced =>
       LET log == tasks[response.job_id].log
       IN \A k \in 1..Len(log) :
             log[k][1] = "exists_found" =>
                k < Len(log) /\ log[k + 1] = <<"judge", log[k][2]>>

\* The text is one article: its first character that is not whitespace is
\* an article marker and it has no other marker.
SingleArticle(text) ==
    \E k \in 1..Len(text) :
       /\ text[k] \in Markers
       /\ \A m \in 1..Len(text) :
             /\ m < k => text[m] \in Whitespace
             /\ m # k => text[m] \notin Markers

\* C24: a document that is a single article starting with its marker and is
\* no longer than the target size yields exactly one chunk, of chunk_type
\* full_article, index 0 and the marker's article number as article.
C24_SingleArticleOneChunk ==
    (/\ ChunkerReturned
     /\ SingleArticle(chunker.text)
     /\ Len(chunker.text) <= TargetSize)
    => /\ Len(chunker.chunks) = 1
       /\ chunker.chunks[1].chunk_type = "full_article"
       /\ chunker.chunks[1].index = 0
       /\ chunker.chunks[1].article = "1-modda"

C24_Witness ==
    /\ ChunkerReturned
    /\ chunker.text = <<"1-modda", ".", "a">>
    /\ Len(chunker.chunks) = 1
    /\ chunker.chunks[1].chunk_type = "full_article"
    /\ chunker.chunks[1].text = chunker.text

\* The stage of run_cycle a logged call belongs to: 1 search, 2
\* deduplication, 3 judge, 4 ingest.
StageOf(entry) ==
    CASE entry[1] = "search" -> 1
      [] entry[1] = "dedup" -> 2
      [] entry[1] \in {"exists_found", "exists_absent", "exists_raised", "judge"} -> 3
      [] entry[1] \in {"scrape", "add", "add_raised"} -> 4

\* The calls of the log before position k that belong to `ops`.
Before(log, k, ops) == {m \in 1..(k - 1) : log[m][1] \in ops}

\* C25: in every run the stages follow one another strictly and the items
\* are handled one at a time: a candidate is looked up or judged only after
\* every keyword has been searched and the candidates deduplicated, a
\* document is fetched or stored only after every candidate has been
\* handled by the judge stage, and the calls made for one item are not
\* interleaved with those of another.
C25_StagesInOrder ==
    \A j \in Jobs :
       LET t == tasks[j]
           log == t.log
           lookups == {"exists_found", "exists_absent", "exists_raised"}
       IN
       /\ \A a, b \in 1..Len(log) : a < b => StageOf(log[a]) <= StageOf(log[b])
       /\ \A k \in 1..Len(log) :
             /\ StageOf(log[k]) = 3 =>
                   /\ Cardinality(Before(log, k, {"search"})) = Len(t.keywords)
                   /\ Cardinality(Before(log, k, {"dedup"})) = 1
             /\ StageOf(log[k]) = 4 =>
                   Cardinality(Before(log, k, lookups)) = Len(t.candidates)
             /\ log[k][1] = "judge" =>
                   k > 1 /\ log[k - 1][1] \in lookups /\ log[k - 1][2] = log[k][2]
             /\ log[k][1] \in {"add", "add_raised"} =>
                   k > 1 /\ log[k - 1] = <<"scrape", log[k][2]>>
       /\ t.pc = "judge" => Cardinality(Before(log, Len(log) + 1, {"dedup"})) = 1
       /\ t.pc = "ingest" =>
             Cardinality(Before(log, Len(log) + 1, lookups)) = Len(t.candidates)

\* C25 witness: a run over two keywords has judged two candidates and then
\* stored two documents.
C25_Witness ==
    \E j \in Jobs :
       /\ tasks[j].pc = "done"
       /\ Len(tasks[j].keywords) = 2
       /\ Count(tasks[j].log, "judge") = 2
       /\ Count(tasks[j].log, "add") = 2

\* The step has put exactly n events on the queue, all of job j.
Emitted(j, n) ==
    /\ Len(queue') = Len(queue) + n
    /\ SubSeq(queue', 1, Len(queue)) = queue
    /\ \A k \in (Len(queue) + 1)..Len(queue') : queue'[k].job = j

\* C26 as stated: every keyword searched, every deduplicated candidate
\* handled in JUDGE and every relevant document handled in INGEST puts
\* exactly one event on the queue, and so does each stage boundary (the
\* start of the search, the end of the deduplication, the return).
C26_OneEventPerItem ==
    [][\A j \in Jobs :
          (\/ StartCycle(j)
           \/ \E out \in SearchOutcomes(Hits, MaxResults) : SearchKeyword(j, out)
           \/ DedupCandidates(j)
           \/ \E getRaised \in BOOLEAN, answer \in JudgeAnswers :
                 JudgeCandidate(j, getRaised, answer)
           \/ \E scrape \in ScrapeOutcomes, addRaised \in BOOLEAN :
                 IngestDocument(j, scrape, addRaised)
           \/ CompleteCycle(j))
          => Emitted(j, 1)
      ]_vars

\* C26 amended: every keyword searched puts exactly one event on the queue;
\* a candidate handled in JUDGE puts exactly one unless the existence check
\* finds it in the store, and then none; a relevant document handled in
\* INGEST puts exactly one (ingest or error) unless its fetch fails or
\* returns no content, and then none; the start of the search, the end of
\* the deduplication and the return of the cycle put one event each.
C26_OneEventPerReportedItem ==
    [][\A j \in Jobs :
          LET t == tasks[j]
              last == tasks'[j].log[Len(tasks'[j].log)]
          IN
          /\ (StartCycle(j) \/ DedupCandidates(j) \/ CompleteCycle(j)) => Emitted(j, 1)
          /\ (\E out \in SearchOutcomes(Hits, MaxResults) : SearchKeyword(j, out))
                => Emitted(j, 1) /\ queue'[Len(queue')].event_type = "search"
          /\ (\E getRaised \in BOOLEAN, answer \in JudgeAnswers :
                 JudgeCandidate(j, getRaised, answer))
                => IF last[1] = "exists_found" THEN Emitted(j, 0)
                   ELSE Emitted(j, 1) /\ queue'[Len(queue')].event_type = "judge"
          /\ \A scrape \in ScrapeOutcomes, addRaised \in BOOLEAN :
                IngestDocument(j, scrape, addRaised)
                => IF scrape \in {"raised", "empty"} THEN Emitted(j, 0)
                   ELSE /\ Emitted(j, 1)
                        /\ queue'[Len(queue')].event_type \in {"ingest", "error"}
      ]_vars

\* C26 witness: a run that has returned skipped one stored candidate, judged
\* the other and fetched nothing for it; it put five events on the queue
\* (start, keyword, total, judge, complete), none for the skipped candidate
\* and none for the empty fetch.
C26_Witness ==
    \E j \in Jobs :
       LET t == tasks[j] IN
       /\ t.pc = "done"
       /\ Len(t.keywords) = 1
       /\ Count(t.log, "exists_found") = 1
       /\ Count(t.log, "judge") = 1
       /\ Count(t.log, "scrape") = 1
       /\ t.ingested_count = 0
       /\ t.failures = 0
       /\ Len(EventsOf(j)) = 5

\* The event ends a run: the complete event or the error event of
\* run_scout_cycle (the error events of single items are of run_cycle).
Terminal(e) == e.event_type = "complete" \/ (e.event_type = "error" /\ e.message = "fatal")

\* C27: a run that has ended has put exactly one terminal event on the
\* queue, the complete event if the cycle returned its tally and the error
\* event if it failed, and that event is the last one of the run; a run that
\* has not ended has put none.
C27_OneTerminalEventLast ==
    \A j \in Jobs :
       LET es == EventsOf(j)
           t == tasks[j]
       IN
       /\ t.pc \in {"done", "failed"} =>
             /\ es # <<>>
             /\ Terminal(es[Len(es)])
             /\ \A k \in 1..(Len(es) - 1) : ~Terminal(es[k])
             /\ es[Len(es)].event_type = (IF t.pc = "done" THEN "complete" ELSE "error")
             /\ t.pc = "done" <=> t.result.returned
       /\ t.pc \notin {"done", "failed"} => \A k \in 1..Len(es) : ~Terminal(es[k])

\* C27 witness: a run has returned after a document could not be stored; the
\* error event of that document is followed by the complete event.
C27_Witness ==
    \E j \in Jobs :
       LET es == EventsOf(j) IN
       /\ tasks[j].pc = "done"
       /\ Len(es) >= 2
       /\ es[Len(es) - 1].event_type = "error"
       /\ es[Len(es)].event_type = "complete"

\* Job j has finished: its terminal event is on the queue, the last of its
\* events, and its entry is no longer in the registry.
Finished(j) ==
    /\ j \notin running_jobs
    /\ tasks[j].pc \in {"done", "failed"}
    /\ EventsOf(j) # <<>>
    /\ Terminal(EventsOf(j)[Len(EventsOf(j))])

\* C28: every admitted job eventually finishes. While every call of the
\* collaborators returns or raises, a job in the registry leads to its
\* terminal event being on the queue and its entry being removed.
C28_AdmittedJobFinishes ==
    \A j \in Jobs : (j \in running_jobs) ~> Finished(j)

\* C28 witness: a job that searched two keywords and stored two documents
\* has finished.
C28_Witness ==
    \E j \in Jobs :
       /\ Finished(j)
       /\ Len(tasks[j].keywords) = 2
       /\ tasks[j].ingested_count = 2

\* C29: a read that times out yields a heartbeat, takes no event from the
\* queue and leaves the stream reading: the queue holds the same events
\* before and after, the subscriber has been delivered nothing and its
\* stream stays open.
C29_HeartbeatLeavesQueue ==
    [][\A s \in Subs :
          Heartbeat(s) =>
             /\ queue' = queue
             /\ produced' = produced
             /\ subs'[s].last_yield = "heartbeat"
             /\ subs'[s].got = subs[s].got
             /\ subs'[s].st = "open"
      ]_vars

\* C29 witness: a heartbeat was yielded while an event is waiting in the
\* queue.
C29_Witness ==
    \E s \in Subs :
       /\ subs[s].st = "open"
       /\ subs[s].last_yield = "heartbeat"
       /\ subs[s].got # <<>>
       /\ queue # <<>>

\* C30: every event a run emits in SEARCH carries a progress between 5 and
\* 20, every event it emits in JUDGE one between 20 and 70, every event it
\* emits in INGEST one between 70 and 95, the complete event carries 100,
\* and every progress lies in 0..100.
C30_ProgressWithinStage ==
    \A k \in 1..Len(queue) :
       LET e == queue[k] IN
       /\ e.progress \in 0..100
       /\ e.message \in {"start", "keyword", "total"} => e.progress \in 5..20
       /\ e.message \in {"relevant", "irrelevant"} => e.progress \in 20..70
       /\ e.message \in {"saved", "ingest_error"} => e.progress \in 70..95
       /\ e.event_type = "complete" => e.progress = 100

\* C31: the overlap fragment a chunk receives is taken from the text the
\* previous chunk had before it received its own prefix: a chunk that
\* carries a prefix carries "..." + a suffix of the previous chunk's
\* pre-overlap text of at most overlap_size characters + a blank line.
C31_OverlapFromPreOverlapText ==
    ChunkerReturned =>
       \A k \in 2..Len(chunker.chunks) :
          chunker.chunks[k].text # chunker.raw[k].text =>
             Prefixed(k, chunker.raw[k - 1].text)

\* The text is one oversized article of several paragraphs: it has no
\* marker, blank lines part it into paragraphs of ink only, none longer than
\* the target size, and it is longer than the target size also when each
\* blank line counts as one character.
OversizedParagraphs(text) ==
    LET paragraphs == Split(text, BlankLine) IN
    /\ Len(text) - (Len(paragraphs) - 1) > TargetSize
    /\ Len(paragraphs) > 1
    /\ \A k \in 1..Len(paragraphs) :
          /\ paragraphs[k] # <<>>
          /\ Len(paragraphs[k]) <= TargetSize
          /\ \A m \in 1..Len(paragraphs[k]) :
                paragraphs[k][m] \notin Whitespace \cup Markers

\* C32: an oversized article whose source text has blank-line paragraph
\* boundaries is split at them, and the segments that fit the target size
\* are chunks of type section whose texts, joined by blank lines, give the
\* source text back.
C32_ParagraphsBecomeSections ==
    (ChunkerReturned /\ OversizedParagraphs(chunker.text)) =>
       /\ \A k \in 1..Len(chunker.raw) : chunker.raw[k].chunk_type = "section"
       /\ Join([k \in 1..Len(chunker.raw) |-> chunker.raw[k].text], BlankLine)
             = chunker.text

\* Every line of the text starts with a numeral, a dot and a space and goes
\* on with ink: the text holds leading-numeral-dot markers only.
NumberedOnly(text) ==
    \A k \in 1..Len(Split(text, <<"\n">>)) :
       Split(text, <<"\n">>)[k] = <<"3", ".", " ", "a">>

\* C33: a text whose only article markers are leading numerals followed by a
\* dot is split into one article per marker: it gives at least one chunk
\* per marker and no chunk of the article "general".
C33_NumberedArticlesSplit ==
    (ChunkerReturned /\ NumberedOnly(chunker.text)) =>
       /\ Len(chunker.raw) >= Len(Split(chunker.text, <<"\n">>))
       /\ \A k \in 1..Len(chunker.raw) : chunker.raw[k].article # "general"

\* C34: a trigger with force_refresh that arrives while a job is running is
\* admitted: the new job is registered next to the running one. The end of a
\* job removes its own entry and no other, and a trigger without
\* force_refresh is turned away as long as any job has not ended.
C34_ForcedRunsSideBySide ==
    [][/\ \A request \in Requests({<<"subsidiya">>}) :
             (running_jobs # {} /\ request.force_refresh /\ trigger_scout(request))
             => /\ response'.status = "started"
                /\ response'.job_id \notin running_jobs
                /\ running_jobs' = running_jobs \cup {response'.job_id}
                /\ tasks'[response'.job_id].pc = "pending"
                /\ \A j \in running_jobs : tasks'[j] = tasks[j]
                /\ queue' = queue
       /\ \A j \in Jobs :
             (CompleteCycle(j) \/ FatalError(j)) => running_jobs' = running_jobs \ {j}
       /\ \A request \in Requests({<<"subsidiya">>}) :
             (/\ \E j \in Jobs : Active(j)
              /\ ~request.force_refresh
              /\ trigger_scout(request))
             => response'.status = "already_running" /\ running_jobs' = running_jobs
      ]_vars

\* C34 witness: two jobs were running side by side and their events are
\* interleaved in the queue; job 1 has ended, job 2 is still registered and
\* a trigger without force_refresh has been turned away.
C34_Witness ==
    /\ Ended(1) /\ Active(2)
    /\ running_jobs = {2}
    /\ response.status = "already_running" /\ ~response.forced
    /\ \E a, b, c \in 1..Len(queue) :
          a < b /\ b < c /\ queue[a].job = 1 /\ queue[b].job = 2 /\ queue[c].job = 1


(***************************************************************************)
(* Runs one after another over the same vector store                        *)
(***************************************************************************)
\* Triggers without force_refresh, so that a run is admitted only when the
\* run before it has ended; the existence check may raise.
NextRuns ==
    \/ \E request \in Requests({<<"subsidiya">>}) :
          ~request.force_refresh /\ trigger_scout(request)
    \/ \E j \in Jobs :
          RunStep(j, FailOrFind, BOOLEAN, {"YES"}, {"content"}, BOOLEAN)

SpecRuns == Init /\ [][NextRuns]_vars

\* Run j wrote chunks with source_url u to the store.
WroteIn(j, u) == \E k \in 1..Len(tasks[j].log) : tasks[j].log[k] = <<"add", u>>

\* Run j logged the step at candidate u.
Logged(j, step, u) == \E k \in 1..Len(tasks[j].log) : tasks[j].log[k] = <<step, u>>

\* Run j went on with candidate u after the existence check.
Handled(j, u) ==
    \E step \in {"judge", "scrape", "add", "add_raised"} : Logged(j, step, u)

Ingested(j) ==
    {tasks[j].relevant_docs[k] : k \in {m \in 1..Len(tasks[j].relevant_docs) :
                                           Logged(j, "add", tasks[j].relevant_docs[m].url)}}

ChunkIds(doc) == {c.id : c \in ChunkRecords(doc)}

\* C36: two documents with different urls that a run has written to the
\* vector store have no chunk id in common, documents without a decree id
\* included.
C36_ChunkIdsIdentifyDocument ==
    \A j \in Jobs :
       \A a, b \in Ingested(j) : a.url # b.url => ChunkIds(a) \cap ChunkIds(b) = {}


\* C37: when no trigger sets force_refresh, at most one job is registered as
\* running and at most one background task is between its start and its end,
\* in every interleaving of triggers, pipeline steps and completions.
C37_AtMostOneRunning ==
    /\ Cardinality(running_jobs) <= 1
    /\ \A i, j \in Jobs : (Active(i) /\ Active(j)) => i = j
    /\ \A j \in Jobs : Active(j) => running_jobs = {j}

C37_Witness ==
    /\ tasks[1].pc = "done"
    /\ tasks[2].pc = "ingest"
    /\ running_jobs = {2}
    /\ response.status = "already_running"


\* Every event that has been put and is still in the queue or was yielded to
\* a subscriber.
PutEvents ==
    {queue[k] : k \in 1..Len(queue)}
       \cup UNION {{subs[s].got[k] : k \in 1..Len(subs[s].got)} : s \in Subs}

\* C38: when a subscriber's stream has closed, the run that put the closing
\* event has ended and has put no event after it.
C38_ClosedOnlyAfterRunEnded ==
    \A s \in Subs :
       subs[s].st = "closed" =>
          LET closing == subs[s].got[Len(subs[s].got)] IN
          /\ Ended(closing.job)
          /\ \A e \in PutEvents : e.job = closing.job => e.seq <= closing.seq


\* C39: every chunk that chunk() returns has a non-empty text, before and
\* after the overlap prefix is added.
C39_NoEmptyChunk ==
    ChunkerReturned =>
       \A k \in 1..Len(chunker.chunks) :
          chunker.raw[k].text # <<>> /\ chunker.chunks[k].text # <<>>

====
